---- MODULE Spec2Model ----
(***************************************************************************)
(* Session-key acquisition of the mesos client:                            *)
(*   src/python/twitter/mesos/session_key_helper.py (SessionKeyHelper).    *)
(*                                                                         *)
(* The directory (ODS), the ssh-agent and the wall clock are the           *)
(* environment.  A signature is modelled by what it binds: the key that    *)
(* made it and the exact bytes it covers; verification against a public    *)
(* key succeeds exactly for a signature of that key over those bytes.      *)
(***************************************************************************)
EXTENDS Integers, Sequences, FiniteSets, TLC

\* ------------------------------------------------------------------ bounds
MaxRecs  == 2   \* longest list of key lines the directory holds for a user
MaxTicks == 2   \* how far the wall clock advances during a run
MaxCalls == 2   \* acquisitions started during a run
SubMs    == 2   \* clock resolution: readings of time.time() per millisecond
StartMs  == 9   \* millisecond at which the run starts

\* ------------------------------------------------------------- environment
Users   == {"alice", "bob"}
Keys    == {"K1", "K2"}            \* key pairs; the agent holds private halves
Callers == {"c1", "c2"}
MainCaller == "c1"

\* A key line of the directory as the code reads it: "<type> <base64 blob>".
\* blob "garbage" is a payload that does not decode to an RSA public key.
DssKeys == {"K1"}                  \* keys that are registered as ssh-dss lines
KeyLines ==
  {[type |-> "ssh-rsa", blob |-> k] : k \in Keys \cup {"garbage"}}
    \cup {[type |-> "ssh-dss", blob |-> k] : k \in DssKeys}

RECURSIVE SeqsUpTo(_, _)
SeqsUpTo(S, n) ==
  IF n = 0 THEN {<<>>}
  ELSE LET shorter == SeqsUpTo(S, n - 1)
       IN  shorter \cup {Append(s, x) : s \in shorter, x \in S}

\* Lists of distinct keys: an agent holds a key at most once.
DistinctKeyLists ==
  {s \in SeqsUpTo(Keys, Cardinality(Keys)) :
     \A i, j \in 1..Len(s) : i # j => s[i] # s[j]}

Range(s) == {s[i] : i \in 1..Len(s)}

VARIABLES
  odsUsers,     \* identities ODS.get_user knows
  odsKeys,      \* user -> key lines ODS.query_keys yields, in directory order
  sshAuthSock,  \* os.getenv('SSH_AUTH_SOCK') is not None
  agentUp,      \* Agent() returns (FALSE: it raises SSHException)
  agentKeys,    \* agent.get_keys(), in agent order
  agentLocked,  \* keys the agent refuses to sign with
  wall,         \* wall clock, in 1/SubMs milliseconds
  calls,        \* acquisitions started so far
  pc,           \* caller -> position in acquire_session_key
  owner,        \* caller -> argument of acquire_session_key
  key,          \* caller -> the SessionKey being filled in
  odsKey,       \* caller -> value get_ods_key returned ("None": nothing yet)
  odsRaised,    \* caller -> <<>> or <<exception get_ods_key raised>>
  exc,          \* caller -> <<>> or <<exception in flight>>
  log,          \* caller -> warnings logged by the current acquisition
  signReqs,     \* caller -> signing requests the acquisition sent to the agent
  probes,       \* caller -> verify_ssh_sig calls: <<agent key, directory line>>
  conn,         \* caller -> agent connection of the acquisition
  reads,        \* caller -> clock readings taken by the acquisition
  started,      \* caller -> millisecond at which the acquisition was called
  prevNonce,    \* caller -> <<>> or <<nonce of the credential its last call got>>
  result        \* caller -> <<>> or <<credential returned to the caller>>

envVars  == <<odsUsers, odsKeys, sshAuthSock, agentUp, agentKeys>>
callVars == <<pc, owner, key, odsKey, odsRaised, exc, log, signReqs, probes,
              conn, reads, started, prevNonce, result>>
vars == <<envVars, agentLocked, wall, calls, callVars>>

\* ------------------------------------------------------------ pure helpers
Digits == <<"0", "1", "2", "3", "4", "5", "6", "7", "8", "9">>

\* str(ts) of a non-negative integer
RECURSIVE Str(_)
Str(n) ==
  IF n < 10 THEN Digits[n + 1]
  ELSE Str(n \div 10) \o Digits[(n % 10) + 1]

\* Faulty variant of get_timestamp: the timestamp is computed once, when the
\* module is loaded, and reused.
get_timestamp_at_import == StartMs

\* int(time.time() * 1000)
get_timestamp == wall \div SubMs

Challenge == "this is a very important message to keep safe."
Unauthenticated == [tag |-> "str", text |-> "UNAUTHENTICATED"]

\* key.sign_ssh_data(None, data) when the agent honours the request
Signature(k, data) == [tag |-> "sig", signer |-> k, data |-> data]

\* pubkey.verify_ssh_sig(data, sig)
verify_ssh_sig(pub, data, sig) ==
  sig.tag = "sig" /\ sig.signer = pub /\ sig.data = data

LDAPError(msg)          == [cls |-> "LDAPError", msg |-> msg]
AgentError(msg)         == [cls |-> "AgentError", msg |-> msg]
AuthorizationError(msg) == [cls |-> "AuthorizationError", msg |-> msg]
SSHException(msg)       == [cls |-> "SSHException", msg |-> msg]

NoSockText    == "Cannot talk to your ssh-agent because your SSH_AUTH_SOCK environment variable is not set up properly."
NoKeysText    == "Unable to find any signable SSH keys."
AgentDownText == "could not get keys from ssh-agent"
SignFailText  == "key cannot be used for signing"
BadKeyText    == "Invalid key"

\* --------------------------------------------------------------- get_ods_key
\* What a run of get_ods_key amounts to: how it ended (kind), the value
\* returned or the exception raised, and what it asked of the agent on the way.
Outcome(kind, ret, e, reqs, prb, cn) ==
  [kind |-> kind, ret |-> ret, exc |-> e, signReqs |-> reqs, probes |-> prb,
   conn |-> cn]

Raised(e, reqs, prb, cn) == Outcome("raise", "None", <<e>>, reqs, prb, cn)

\* Faulty variant of StartsWithSshRsa: the key-type filter is dropped.
AnyKeyType(line) == TRUE

\* key.startswith('ssh-rsa')
StartsWithSshRsa(line) == line.type = "ssh-rsa"

\* all_ldap_pubkeys: the ssh-rsa lines decoded to public keys, in directory
\* order; decoding an ssh-rsa line whose payload is no RSA key raises.
RECURSIVE ParseLines(_, _, _)
ParseLines(lines, i, acc) ==
  IF i > Len(lines) THEN [exc |-> <<>>, pubs |-> acc]
  ELSE IF ~StartsWithSshRsa(lines[i]) THEN ParseLines(lines, i + 1, acc)
  ELSE IF lines[i].blob = "garbage"
       THEN [exc |-> <<SSHException(BadKeyText)>>, pubs |-> acc]
  ELSE ParseLines(lines, i + 1,
                  Append(acc, [line |-> i, pub |-> lines[i].blob]))

\* The inner loop: the signed challenge of agent key k is verified against
\* the directory's public keys in order, stopping at the first that verifies.
RECURSIVE VerifyLoop(_, _, _, _)
VerifyLoop(k, sig, pubs, j) ==
  IF j > Len(pubs) THEN [hit |-> FALSE, probes |-> <<>>]
  ELSE IF verify_ssh_sig(pubs[j].pub, Challenge, sig)
       THEN [hit |-> TRUE, probes |-> <<<<k, pubs[j].line>>>>]
  ELSE LET rest == VerifyLoop(k, sig, pubs, j + 1)
       IN  [hit |-> rest.hit, probes |-> <<<<k, pubs[j].line>>>> \o rest.probes]

\* Faulty variant of ScanKeys: the first agent key is taken without matching it
\* against the directory.
ScanKeysFirstAgentKey(keys, locked, pubs, i) ==
  IF i > Len(keys) THEN Outcome("fallthrough", "None", <<>>, <<>>, <<>>, "open")
  ELSE Outcome("return", keys[i], <<>>, <<>>, <<>>, "open")

\* Faulty variant of ScanKeys: the loop does not return at the first match
\* but scans every agent key and returns the last one that matched.
RECURSIVE ScanKeysNoBreak(_, _, _, _)
ScanKeysNoBreak(keys, locked, pubs, i) ==
  IF i > Len(keys) THEN Outcome("fallthrough", "None", <<>>, <<>>, <<>>, "open")
  ELSE
    LET k   == keys[i]
        req == [key |-> k, data |-> Challenge, ok |-> k \notin locked]
    IN  IF k \in locked
        THEN Raised(SSHException(SignFailText), <<req>>, <<>>, "open")
        ELSE
          LET v    == VerifyLoop(k, Signature(k, Challenge), pubs, 1)
              rest == ScanKeysNoBreak(keys, locked, pubs, i + 1)
          IN  IF rest.kind = "fallthrough" /\ v.hit
              THEN Outcome("return", k, <<>>, <<req>> \o rest.signReqs,
                           v.probes \o rest.probes, "open")
              ELSE Outcome(rest.kind, rest.ret, rest.exc,
                           <<req>> \o rest.signReqs,
                           v.probes \o rest.probes, "open")

\* Faulty variant of ScanKeys: a key the agent refuses to sign with is skipped
\* and the scan goes on to the next key.
RECURSIVE ScanKeysSkipRefused(_, _, _, _)
ScanKeysSkipRefused(keys, locked, pubs, i) ==
  IF i > Len(keys) THEN Outcome("fallthrough", "None", <<>>, <<>>, <<>>, "open")
  ELSE
    LET k    == keys[i]
        req  == [key |-> k, data |-> Challenge, ok |-> k \notin locked]
        v    == IF k \in locked THEN [hit |-> FALSE, probes |-> <<>>]
                ELSE VerifyLoop(k, Signature(k, Challenge), pubs, 1)
    IN  IF v.hit
        THEN Outcome("return", k, <<>>, <<req>>, v.probes, "open")
        ELSE
          LET rest == ScanKeysSkipRefused(keys, locked, pubs, i + 1)
          IN  Outcome(rest.kind, rest.ret, rest.exc,
                      <<req>> \o rest.signReqs,
                      v.probes \o rest.probes, "open")

\* The outer loop over agent.get_keys(): each key signs the challenge (a
\* refusal of the agent raises out of the loop), and the first key whose
\* signature verifies is returned at once.
RECURSIVE ScanKeys(_, _, _, _)
ScanKeys(keys, locked, pubs, i) ==
  IF i > Len(keys) THEN Outcome("fallthrough", "None", <<>>, <<>>, <<>>, "open")
  ELSE
    LET k   == keys[i]
        req == [key |-> k, data |-> Challenge, ok |-> k \notin locked]
    IN  IF k \in locked
        THEN Raised(SSHException(SignFailText), <<req>>, <<>>, "open")
        ELSE
          LET v == VerifyLoop(k, Signature(k, Challenge), pubs, 1)
          IN  IF v.hit
              THEN Outcome("return", k, <<>>, <<req>>, v.probes, "open")
              ELSE
                LET rest == ScanKeys(keys, locked, pubs, i + 1)
                IN  Outcome(rest.kind, rest.ret, rest.exc,
                            <<req>> \o rest.signReqs,
                            v.probes \o rest.probes, "open")

\* Agent(): with SSH_AUTH_SOCK set and the agent answering, a connection is
\* held by the Agent object.
AgentConn == IF sshAuthSock /\ agentUp THEN "open" ELSE "none"

\* Faulty variant of FallthroughError: the environment is not consulted.
FallthroughAlwaysNoKeys == AgentError(NoKeysText)

\* After the loop ends without a match: which AgentError is raised.
FallthroughError ==
  IF ~sshAuthSock THEN AgentError(NoSockText) ELSE AgentError(NoKeysText)

\* Faulty variant of UserKnown: the get_user check is skipped.
UserAlwaysKnown(username) == TRUE

\* ods.get_user(username) is not None
UserKnown(username) == username \in odsUsers

\* Faulty variant of get_ods_key: the raise after the loop is missing, so a
\* scan that matched nothing falls off the end and returns None.
get_ods_key_returns_none(username) ==
  IF ~UserKnown(username)
  THEN Raised(LDAPError("Could not query " \o username \o " from ODS!"),
              <<>>, <<>>, "none")
  ELSE
    LET p == ParseLines(odsKeys[username], 1, <<>>)
    IN  IF p.exc # <<>> THEN Raised(p.exc[1], <<>>, <<>>, "none")
        ELSE IF ~agentUp
        THEN Raised(AgentError("Could not talk to SSH agent: " \o AgentDownText),
                    <<>>, <<>>, "none")
        ELSE
          LET s == ScanKeys(agentKeys, agentLocked, p.pubs, 1)
          IN  IF s.kind # "fallthrough"
              THEN Outcome(s.kind, s.ret, s.exc, s.signReqs, s.probes, AgentConn)
              ELSE Outcome("return", "None", <<>>, s.signReqs, s.probes, AgentConn)

get_ods_key(username) ==
  IF ~UserKnown(username)
  THEN Raised(LDAPError("Could not query " \o username \o " from ODS!"),
              <<>>, <<>>, "none")
  ELSE
    LET p == ParseLines(odsKeys[username], 1, <<>>)
    IN  IF p.exc # <<>> THEN Raised(p.exc[1], <<>>, <<>>, "none")
        ELSE IF ~agentUp
        THEN Raised(AgentError("Could not talk to SSH agent: " \o AgentDownText),
                    <<>>, <<>>, "none")
        ELSE
          LET s == ScanKeys(agentKeys, agentLocked, p.pubs, 1)
          IN  IF s.kind # "fallthrough"
              THEN Outcome(s.kind, s.ret, s.exc, s.signReqs, s.probes, AgentConn)
              ELSE Raised(FallthroughError, s.signReqs, s.probes, AgentConn)

\* ------------------------------------------------------------------ actions
SessionKey(user) == [user |-> user, nonce |-> <<>>, nonceSig |-> <<>>]

\* Faulty variant of Catches: only the helper's own AgentError is caught.
CatchesAgentErrorOnly(e) == e.cls = "AgentError"

\* except Exception: every class raised here derives from Exception
Catches(e) ==
  e.cls \in {"LDAPError", "AgentError", "AuthorizationError", "SSHException"}

Init ==
  /\ odsUsers \in SUBSET Users
  /\ \E recs \in SeqsUpTo(KeyLines, MaxRecs) :
       odsKeys = [u \in Users |->
                    IF u = "alice" /\ u \in odsUsers THEN recs ELSE <<>>]
  /\ sshAuthSock \in BOOLEAN
  /\ agentUp \in BOOLEAN
  /\ agentKeys \in DistinctKeyLists
  \* without SSH_AUTH_SOCK, or when it cannot reach the agent, Agent() holds
  \* no keys
  /\ (~sshAuthSock \/ ~agentUp) => agentKeys = <<>>
  /\ ~sshAuthSock => agentUp
  /\ agentLocked \in SUBSET Range(agentKeys)
  /\ wall = StartMs * SubMs
  /\ calls = 0
  /\ pc = [c \in Callers |-> "idle"]
  /\ owner = [c \in Callers |-> "alice"]
  /\ key = [c \in Callers |-> SessionKey("alice")]
  /\ odsKey = [c \in Callers |-> "None"]
  /\ odsRaised = [c \in Callers |-> <<>>]
  /\ exc = [c \in Callers |-> <<>>]
  /\ log = [c \in Callers |-> <<>>]
  /\ signReqs = [c \in Callers |-> <<>>]
  /\ probes = [c \in Callers |-> <<>>]
  /\ conn = [c \in Callers |-> "none"]
  /\ reads = [c \in Callers |-> <<>>]
  /\ started = [c \in Callers |-> StartMs]
  /\ prevNonce = [c \in Callers |-> <<>>]
  /\ result = [c \in Callers |-> <<>>]

\* acquire_session_key(owner) is called: key = SessionKey(user=owner), then
\* sign_session(key, owner) is entered.
Call(c, u) ==
  /\ pc[c] \in {"idle", "done"}
  /\ calls < MaxCalls
  /\ calls' = calls + 1
  /\ pc' = [pc EXCEPT ![c] = "get_ods_key"]
  /\ owner' = [owner EXCEPT ![c] = u]
  /\ key' = [key EXCEPT ![c] = SessionKey(u)]
  /\ odsKey' = [odsKey EXCEPT ![c] = "None"]
  /\ odsRaised' = [odsRaised EXCEPT ![c] = <<>>]
  /\ exc' = [exc EXCEPT ![c] = <<>>]
  /\ log' = [log EXCEPT ![c] = <<>>]
  /\ signReqs' = [signReqs EXCEPT ![c] = <<>>]
  /\ probes' = [probes EXCEPT ![c] = <<>>]
  /\ conn' = [conn EXCEPT ![c] = "none"]
  /\ reads' = [reads EXCEPT ![c] = <<>>]
  /\ started' = [started EXCEPT ![c] = wall \div SubMs]
  /\ prevNonce' = [prevNonce EXCEPT ![c] =
       IF result[c] # <<>> THEN result[c][1].nonce ELSE @]
  /\ result' = [result EXCEPT ![c] = <<>>]
  /\ UNCHANGED <<envVars, agentLocked, wall>>

\* Faulty variant of GetOdsKey: the matched key is kept in a class attribute
\* and reused by whichever call comes next.
GetOdsKeyShared(c) ==
  /\ pc[c] = "get_ods_key"
  /\ \E r \in {get_ods_key(owner[c])} :
       LET cached == {odsKey[d] : d \in Callers \ {c}} \ {"None"}
           hit    == IF cached # {} THEN CHOOSE k \in cached : TRUE ELSE r.ret
       IN  /\ pc' = [pc EXCEPT ![c] = IF hit # "None" THEN "sign" ELSE "except"]
           /\ odsKey' = [odsKey EXCEPT ![c] = hit]
           /\ odsRaised' = [odsRaised EXCEPT ![c] = IF hit # "None" THEN <<>> ELSE r.exc]
           /\ exc' = [exc EXCEPT ![c] = IF hit # "None" THEN <<>> ELSE r.exc]
           /\ signReqs' = [signReqs EXCEPT ![c] = r.signReqs]
           /\ probes' = [probes EXCEPT ![c] = r.probes]
           /\ conn' = [conn EXCEPT ![c] = r.conn]
  /\ UNCHANGED <<envVars, agentLocked, wall, calls, owner, key, log, reads,
                 started, prevNonce, result>>

\* Faulty variant of GetOdsKey: the scan pops the keys it examines off the
\* agent's key list instead of iterating over it.
GetOdsKeyConsuming(c) ==
  /\ pc[c] = "get_ods_key"
  /\ \E r \in {get_ods_key(owner[c])} :
       /\ pc' = [pc EXCEPT ![c] = IF r.kind = "return" THEN "sign" ELSE "except"]
       /\ odsKey' = [odsKey EXCEPT ![c] = r.ret]
       /\ odsRaised' = [odsRaised EXCEPT ![c] = r.exc]
       /\ exc' = [exc EXCEPT ![c] = r.exc]
       /\ signReqs' = [signReqs EXCEPT ![c] = r.signReqs]
       /\ probes' = [probes EXCEPT ![c] = r.probes]
       /\ conn' = [conn EXCEPT ![c] = r.conn]
       /\ agentKeys' = SubSeq(agentKeys, Len(r.signReqs) + 1, Len(agentKeys))
  /\ UNCHANGED <<odsUsers, odsKeys, sshAuthSock, agentUp, agentLocked, wall,
                 calls, owner, key, log, reads, started, prevNonce, result>>

\* sign_session: key = SessionKeyHelper.get_ods_key(username)
GetOdsKey(c) ==
  /\ pc[c] = "get_ods_key"
  /\ \E r \in {get_ods_key(owner[c])} :
       /\ pc' = [pc EXCEPT ![c] = IF r.kind = "return" THEN "sign" ELSE "except"]
       /\ odsKey' = [odsKey EXCEPT ![c] = r.ret]
       /\ odsRaised' = [odsRaised EXCEPT ![c] = r.exc]
       /\ exc' = [exc EXCEPT ![c] = r.exc]
       /\ signReqs' = [signReqs EXCEPT ![c] = r.signReqs]
       /\ probes' = [probes EXCEPT ![c] = r.probes]
       /\ conn' = [conn EXCEPT ![c] = r.conn]
  /\ UNCHANGED <<envVars, agentLocked, wall, calls, owner, key, log, reads,
                 started, prevNonce, result>>

\* Faulty variant of SessionMessage: the timestamp is signed in seconds.
SessionMessageInSeconds(ts) == Str(ts \div 1000)

\* message = str(ts): the bytes the agent is asked to sign
SessionMessage(ts) == Str(ts)

\* sign_session after get_ods_key returned: the None check, the timestamp,
\* the agent's signature over str(ts), then the two assignments.
SignSession(c) ==
  /\ pc[c] = "sign"
  /\ LET k   == odsKey[c]
         ts  == get_timestamp
         msg == SessionMessage(ts)
     IN  IF k = "None"
         THEN /\ exc' = [exc EXCEPT ![c] =
                   <<AuthorizationError("Could not find valid key for " \o owner[c])>>]
              /\ pc' = [pc EXCEPT ![c] = "except"]
              /\ UNCHANGED <<key, signReqs, reads>>
         ELSE /\ reads' = [reads EXCEPT ![c] = Append(@, ts)]
              /\ signReqs' = [signReqs EXCEPT ![c] =
                   Append(@, [key |-> k, data |-> msg, ok |-> k \notin agentLocked])]
              /\ IF k \in agentLocked
                 THEN /\ exc' = [exc EXCEPT ![c] = <<SSHException(SignFailText)>>]
                      /\ pc' = [pc EXCEPT ![c] = "except"]
                      /\ UNCHANGED key
                 ELSE /\ key' = [key EXCEPT ![c].nonce = <<ts>>,
                                            ![c].nonceSig = <<Signature(k, msg)>>]
                      /\ pc' = [pc EXCEPT ![c] = "return"]
                      /\ UNCHANGED exc
  /\ UNCHANGED <<envVars, agentLocked, wall, calls, owner, odsKey, odsRaised,
                 log, probes, conn, started, prevNonce, result>>

\* Faulty variant of FallbackWarnings: the announcement is logged before the cause.
FallbackWarningsSwapped(e) ==
  <<"Attempting un-authenticated communication",
    "Cannot use SSH auth: " \o e.msg>>

\* log.warning(...) twice: the cause, then the announcement
FallbackWarnings(e) ==
  <<"Cannot use SSH auth: " \o e.msg,
    "Attempting un-authenticated communication">>

\* Faulty variant of FallbackKey: the nonce is not set on the fallback path.
FallbackKeyWithoutNonce(k, ts) == [k EXCEPT !.nonceSig = <<Unauthenticated>>]

\* key.nonce = cls.get_timestamp(); key.nonceSig = 'UNAUTHENTICATED'
FallbackKey(k, ts) ==
  [k EXCEPT !.nonce = <<ts>>, !.nonceSig = <<Unauthenticated>>]

\* The except clause of acquire_session_key: two warnings, then the
\* timestamp and the sentinel; an exception it does not catch propagates.
Except(c) ==
  /\ pc[c] = "except"
  /\ LET e == exc[c][1]
     IN  IF Catches(e)
         THEN /\ log' = [log EXCEPT ![c] = @ \o FallbackWarnings(e)]
              /\ reads' = [reads EXCEPT ![c] = Append(@, get_timestamp)]
              /\ key' = [key EXCEPT ![c] = FallbackKey(@, get_timestamp)]
              /\ exc' = [exc EXCEPT ![c] = <<>>]
              /\ pc' = [pc EXCEPT ![c] = "return"]
         ELSE /\ pc' = [pc EXCEPT ![c] = "raised"]
              /\ UNCHANGED <<log, reads, key, exc>>
  /\ UNCHANGED <<envVars, agentLocked, wall, calls, owner, odsKey, odsRaised,
                 signReqs, probes, conn, started, prevNonce, result>>

\* return key
Return(c) ==
  /\ pc[c] = "return"
  /\ result' = [result EXCEPT ![c] = <<key[c]>>]
  /\ pc' = [pc EXCEPT ![c] = "done"]
  /\ UNCHANGED <<envVars, agentLocked, wall, calls, owner, key, odsKey,
                 odsRaised, exc, log, signReqs, probes, conn, reads, started,
                 prevNonce>>

\* The wall clock advances.
Tick ==
  /\ wall < StartMs * SubMs + MaxTicks
  /\ wall' = wall + 1
  /\ UNCHANGED <<envVars, agentLocked, calls, callVars>>

\* The agent stops signing with one of its keys (the key is locked or removed,
\* the user declines the confirmation).
AgentLock(k) ==
  /\ k \in Range(agentKeys) \ agentLocked
  /\ agentLocked' = agentLocked \cup {k}
  /\ UNCHANGED <<envVars, wall, calls, callVars>>

Step(c) ==
  \/ \E u \in Users : Call(c, u)
  \/ GetOdsKey(c)
  \/ SignSession(c)
  \/ Except(c)
  \/ Return(c)

Next ==
  \/ Step(MainCaller)
  \/ Tick
  \/ \E k \in Keys : AgentLock(k)

Spec == Init /\ [][Next]_vars

\* Several callers run acquire_session_key at once, one call each, their steps
\* interleaved in any order, against a directory and an agent that do not
\* change meanwhile.
StepOnce(c) ==
  \/ \E u \in Users : pc[c] = "idle" /\ Call(c, u)
  \/ GetOdsKey(c)
  \/ SignSession(c)
  \/ Except(c)
  \/ Return(c)

NextConc ==
  \/ \E c \in Callers : StepOnce(c)
  \/ Tick

SpecConc == Init /\ [][NextConc]_vars

\* --------------------------------------------------------------- properties
Sentinel == [tag |-> "str", text |-> "UNAUTHENTICATED"]
ChallengeText == "this is a very important message to keep safe."
ClockMs == wall \div SubMs

Cred(c) == result[c][1]
Returned(c) == pc[c] = "done"
AfterGetOdsKey(c) == pc[c] \in {"sign", "except", "return", "done"}

\* keys the directory has on record for u: of any type, and of type ssh-rsa
Registered(u) ==
  {odsKeys[u][i].blob : i \in 1..Len(odsKeys[u])} \ {"garbage"}
RsaLineIdx(u) ==
  {i \in 1..Len(odsKeys[u]) : odsKeys[u][i].type = "ssh-rsa"}
RsaRegistered(u) == {odsKeys[u][i].blob : i \in RsaLineIdx(u)} \ {"garbage"}
Decodes(u) == \A i \in RsaLineIdx(u) : odsKeys[u][i].blob # "garbage"

\* agent keys that have a directory counterpart
Matched(u) == Range(agentKeys) \cap Registered(u)
RsaMatched(u) == Range(agentKeys) \cap RsaRegistered(u)

AllRequestsHonoured(c) == \A i \in 1..Len(signReqs[c]) : signReqs[c][i].ok
Authenticated(cred) ==
  /\ Len(cred.nonce) = 1
  /\ Len(cred.nonceSig) = 1
  /\ cred.nonceSig[1] # Sentinel
IndexOf(seq, x) == CHOOSE i \in 1..Len(seq) : seq[i] = x
SetMin(S) == CHOOSE x \in S : \A y \in S : x <= y
DecimalSound ==
  Str(0) = "0" /\ Str(9) = "9" /\ Str(10) = "10" /\ Str(1905) = "1905"

\* C1: acquire_session_key never lets an error escape: whatever the directory,
\* the agent and the session signing do, the call does not end by raising, it
\* can always take its next step, and it ends by returning a credential for
\* the owner with nonce and signature set.
C1_NoErrorEscapes ==
  \A c \in Callers :
    /\ pc[c] # "raised"
    /\ pc[c] = "get_ods_key" => ENABLED GetOdsKey(c)
    /\ pc[c] = "sign" => ENABLED SignSession(c)
    /\ pc[c] = "except" => ENABLED Except(c)
    /\ pc[c] = "return" => ENABLED Return(c)
    /\ Returned(c) =>
         /\ Len(result[c]) = 1
         /\ Cred(c).user = owner[c]
         /\ Len(Cred(c).nonce) = 1
         /\ Len(Cred(c).nonceSig) = 1

\* A call that matched a key, was refused the session signature and still
\* returned.
C1_Witness ==
  \E c \in Callers :
    /\ Returned(c)
    /\ odsKey[c] # "None"
    /\ \E i \in 1..Len(signReqs[c]) :
         signReqs[c][i].data # ChallengeText /\ ~signReqs[c][i].ok

\* C2: when no agent key matches a key the directory holds for the owner, the
\* returned credential names the owner, carries the sentinel signature, and
\* its nonce is the clock reading the call took, between its start and now.
C2_UnmatchedFallsBack ==
  \A c \in Callers :
    (Returned(c) /\ Matched(owner[c]) = {}) =>
      /\ Cred(c).user = owner[c]
      /\ Cred(c).nonceSig = <<Sentinel>>
      /\ Len(reads[c]) = 1
      /\ Cred(c).nonce = <<reads[c][1]>>
      /\ started[c] <= reads[c][1]
      /\ reads[c][1] <= ClockMs

\* The directory has keys for the owner, the agent has keys, none match.
C2_Witness ==
  \E c \in Callers :
    /\ Returned(c)
    /\ Matched(owner[c]) = {}
    /\ Registered(owner[c]) # {}
    /\ agentKeys # <<>>
    /\ ClockMs > started[c]

\* The credential of c is authenticated and its signature verifies, against a
\* directory key among Candidates that the agent holds, over the decimal
\* string of its nonce.
VerifiesAgainst(c, Candidates) ==
  /\ Cred(c).user = owner[c]
  /\ Authenticated(Cred(c))
  /\ \E k \in Candidates \cap Range(agentKeys) :
       verify_ssh_sig(k, Str(Cred(c).nonce[1]), Cred(c).nonceSig[1])

C4_FirstMatchWins ==
  \A c \in Callers :
    pc[c] = "sign" =>
      /\ odsKey[c] \in Range(agentKeys)
      /\ LET u == owner[c]
             k == odsKey[c]
             i == IndexOf(agentKeys, k)
             P == probes[c]
             hitLine == SetMin({l \in RsaLineIdx(u) : odsKeys[u][l].blob = k})
         IN  /\ k \in RsaRegistered(u)
             /\ \A j \in 1..(i - 1) : agentKeys[j] \notin RsaRegistered(u)
             /\ Len(signReqs[c]) = i
             /\ \A j \in 1..i :
                  signReqs[c][j] =
                    [key |-> agentKeys[j], data |-> ChallengeText, ok |-> TRUE]
             /\ \A n \in 1..Len(P) :
                  /\ P[n][1] \in {agentKeys[j] : j \in 1..i}
                  /\ P[n][2] \in RsaLineIdx(u)
             /\ \A n \in 1..(Len(P) - 1) :
                  \/ IndexOf(agentKeys, P[n][1]) < IndexOf(agentKeys, P[n + 1][1])
                  \/ P[n][1] = P[n + 1][1] /\ P[n][2] < P[n + 1][2]
             /\ \A j \in 1..(i - 1) : \A l \in RsaLineIdx(u) :
                  <<agentKeys[j], l>> \in Range(P)
             /\ \A l \in RsaLineIdx(u) : l < hitLine => <<k, l>> \in Range(P)
             /\ Len(P) >= 1
             /\ P[Len(P)] = <<k, hitLine>>

\* Both agent keys are registered, the second directory line is the first to
\* verify, and the first agent key was returned.
C4_Witness ==
  \E c \in Callers :
    /\ pc[c] = "sign"
    /\ Len(agentKeys) = 2
    /\ Range(agentKeys) \subseteq RsaRegistered(owner[c])
    /\ odsKey[c] = agentKeys[1]
    /\ Len(probes[c]) = 2

\* C5: an authenticated credential carries as nonce the one clock reading the
\* call took, and its signature is the matched key's signature over exactly
\* the decimal string of that reading.
C5_NonceIsWhatWasSigned ==
  /\ DecimalSound
  /\ \A c \in Callers :
       (Returned(c) /\ Cred(c).nonceSig # <<Sentinel>>) =>
         /\ Len(reads[c]) = 1
         /\ Cred(c).nonce = <<reads[c][1]>>
         /\ started[c] <= reads[c][1]
         /\ reads[c][1] <= ClockMs
         /\ odsKey[c] \in Range(agentKeys)
         /\ Cred(c).nonceSig =
              <<[tag |-> "sig", signer |-> odsKey[c], data |-> Str(reads[c][1])]>>
         /\ signReqs[c][Len(signReqs[c])] =
              [key |-> odsKey[c], data |-> Str(reads[c][1]), ok |-> TRUE]

\* An authenticated credential whose nonce has two decimal digits, signed
\* after the clock moved on from the start of the call.
C5_Witness ==
  \E c \in Callers :
    /\ Returned(c)
    /\ Authenticated(Cred(c))
    /\ Cred(c).nonce[1] > started[c]
    /\ Cred(c).nonce[1] >= 10

\* C6: no acquisition ends with its agent connection still open.
C6_ConnectionReleased ==
  \A c \in Callers : Returned(c) => conn[c] # "open"

CauseLines ==
  {"Cannot use SSH auth: " \o m :
     m \in {"Could not query " \o u \o " from ODS!" : u \in Users}
            \cup {"Could not talk to SSH agent: " \o AgentDownText,
                  "Cannot talk to your ssh-agent because your SSH_AUTH_SOCK environment variable is not set up properly.",
                  "Unable to find any signable SSH keys.",
                  SignFailText, BadKeyText}}

\* C7: a call that falls back has logged exactly two warnings by the time it
\* is about to return, the cause and then the announcement; a call that
\* succeeds has logged none; nothing is returned before that.
C7_TwoWarningsOnFallback ==
  \A c \in Callers :
    /\ pc[c] \in {"get_ods_key", "sign", "except"} => log[c] = <<>>
    /\ pc[c] \in {"get_ods_key", "sign", "except", "return"} => result[c] = <<>>
    /\ pc[c] \in {"return", "done"} =>
         IF key[c].nonceSig = <<Sentinel>>
         THEN /\ Len(log[c]) = 2
              /\ log[c][1] \in CauseLines
              /\ log[c][2] = "Attempting un-authenticated communication"
         ELSE /\ log[c] = <<>>
              /\ Authenticated(key[c])

\* A fallback about to return: both warnings are logged, nothing is returned.
C7_Witness ==
  \E c \in Callers :
    /\ pc[c] = "return"
    /\ key[c].nonceSig = <<Sentinel>>
    /\ Len(log[c]) = 2
    /\ result[c] = <<>>

\* C8: for an owner the directory does not know, get_ods_key raises LDAPError
\* before it turns to the agent, whatever the agent's state; for an owner it
\* knows without key lines, get_ods_key raises something other than LDAPError.
C8_UnknownIdentityIsDirectoryError ==
  \A c \in Callers :
    AfterGetOdsKey(c) =>
      /\ owner[c] \notin odsUsers =>
           /\ odsRaised[c] =
                <<[cls |-> "LDAPError",
                   msg |-> "Could not query " \o owner[c] \o " from ODS!"]>>
           /\ odsKey[c] = "None"
           /\ signReqs[c] = <<>>
           /\ conn[c] = "none"
      /\ (owner[c] \in odsUsers /\ odsKeys[owner[c]] = <<>>) =>
           /\ Len(odsRaised[c]) = 1
           /\ odsRaised[c][1].cls # "LDAPError"

\* get_ods_key raised LDAPError for an unknown owner while the agent was
\* reachable and held keys.
C8_Witness ==
  \E c \in Callers :
    /\ AfterGetOdsKey(c)
    /\ owner[c] \notin odsUsers
    /\ agentUp /\ sshAuthSock /\ agentKeys # <<>>
    /\ Len(odsRaised[c]) = 1

AgentUnreachable == ~agentUp \/ ~sshAuthSock
UnavailableErrors ==
  {[cls |-> "AgentError",
    msg |-> "Could not talk to SSH agent: " \o AgentDownText],
   [cls |-> "AgentError",
    msg |-> "Cannot talk to your ssh-agent because your SSH_AUTH_SOCK environment variable is not set up properly."]}
NotFoundError ==
  [cls |-> "AgentError", msg |-> "Unable to find any signable SSH keys."]

\* C9 as stated: whenever the agent cannot be reached, get_ods_key raises the
\* agent-unavailable error.
C9_AsStated ==
  \A c \in Callers :
    (AfterGetOdsKey(c) /\ AgentUnreachable) =>
      /\ Len(odsRaised[c]) = 1
      /\ odsRaised[c][1] \in UnavailableErrors

\* C9: for an owner the directory knows and whose ssh-rsa lines decode,
\* get_ods_key raises an agent-unavailable error when Agent() fails or
\* SSH_AUTH_SOCK is unset, and the not-found error when the agent is
\* reachable, honours the challenges and no key of it has an ssh-rsa
\* counterpart; the not-found error is none of the unavailable ones.
C9_AgentUnavailableDistinct ==
  /\ NotFoundError \notin UnavailableErrors
  /\ \A c \in Callers :
       (AfterGetOdsKey(c) /\ owner[c] \in odsUsers /\ Decodes(owner[c])) =>
         /\ ~agentUp =>
              odsRaised[c] =
                <<[cls |-> "AgentError",
                   msg |-> "Could not talk to SSH agent: " \o AgentDownText]>>
         /\ ~sshAuthSock =>
              odsRaised[c] =
                <<[cls |-> "AgentError",
                   msg |-> "Cannot talk to your ssh-agent because your SSH_AUTH_SOCK environment variable is not set up properly."]>>
         /\ (/\ ~AgentUnreachable
             /\ RsaMatched(owner[c]) = {}
             /\ AllRequestsHonoured(c)) =>
              odsRaised[c] = <<NotFoundError>>

\* A known owner, SSH_AUTH_SOCK unset: get_ods_key raised the error about the
\* forwarding socket.
C9_Witness ==
  \E c \in Callers :
    /\ AfterGetOdsKey(c)
    /\ owner[c] \in odsUsers
    /\ odsKeys[owner[c]] # <<>>
    /\ ~sshAuthSock
    /\ Len(odsRaised[c]) = 1
    /\ odsRaised[c][1] \in UnavailableErrors

\* C10: only ssh-rsa lines are verification candidates: every verification
\* get_ods_key attempts is against an ssh-rsa line, a key it returns has an
\* ssh-rsa counterpart, and when no agent key has one the call returns the
\* sentinel credential.
C10_OnlyRsaRecordsMatch ==
  \A c \in Callers :
    AfterGetOdsKey(c) =>
      /\ \A n \in 1..Len(probes[c]) :
           odsKeys[owner[c]][probes[c][n][2]].type = "ssh-rsa"
      /\ odsKey[c] # "None" => odsKey[c] \in RsaRegistered(owner[c])
      /\ (Returned(c) /\ RsaMatched(owner[c]) = {}) =>
           Cred(c).nonceSig = <<Sentinel>>

\* An agent key whose only directory counterpart is an ssh-dss line, next to
\* an ssh-rsa line of another key: the call returned the sentinel credential.
C10_Witness ==
  \E c \in Callers :
    /\ Returned(c)
    /\ Matched(owner[c]) # {}
    /\ RsaMatched(owner[c]) = {}
    /\ RsaRegistered(owner[c]) # {}
    /\ AllRequestsHonoured(c)
    /\ Cred(c).nonceSig = <<Sentinel>>

FirstRsaMatch(u) ==
  SetMin({j \in 1..Len(agentKeys) : agentKeys[j] \in RsaRegistered(u)})
SoloSigner(u) ==
  IF /\ u \in odsUsers
     /\ Decodes(u)
     /\ agentUp
     /\ RsaMatched(u) # {}
     /\ \A j \in 1..FirstRsaMatch(u) : agentKeys[j] \notin agentLocked
  THEN agentKeys[FirstRsaMatch(u)]
  ELSE "None"

\* C12: with calls interleaved step by step, whatever the other calls are
\* doing, each call matches the key a call alone would match and returns the
\* credential a call alone would return: its own owner, and either the
\* signature of that key or the sentinel.
C12_InterleavedAsAlone ==
  \A c \in Callers :
    /\ AfterGetOdsKey(c) => odsKey[c] = SoloSigner(owner[c])
    /\ pc[c] \in {"return", "done"} => key[c].user = owner[c]
    /\ Returned(c) =>
         /\ Cred(c).user = owner[c]
         /\ Len(Cred(c).nonceSig) = 1
         /\ IF SoloSigner(owner[c]) = "None"
            THEN Cred(c).nonceSig[1] = Sentinel
            ELSE /\ Cred(c).nonceSig[1] # Sentinel
                 /\ Cred(c).nonceSig[1].signer = SoloSigner(owner[c])

\* Two calls for different owners in flight at once: one has matched a key
\* and not yet signed, the other has returned the sentinel credential.
C12_Witness ==
  \E c, d \in Callers :
    /\ c # d
    /\ owner[c] # owner[d]
    /\ pc[c] = "sign"
    /\ started[d] >= started[c]
    /\ Returned(d)
    /\ Cred(d).nonceSig = <<Sentinel>>

\* C13: matching is idempotent and leaves its inputs unchanged: a step of
\* get_ods_key alters neither the directory (its identities and their
\* records) nor the agent (its key list, whether it answers, SSH_AUTH_SOCK),
\* and a run of get_ods_key ends the same way as every other run for the same
\* identity over that same directory and agent has ended: the same selected
\* key, or the same error.
InputsOfMatching == <<odsUsers, odsKeys, sshAuthSock, agentUp, agentKeys, agentLocked>>
SameOutcome(c, d) == odsKey[c] = odsKey[d] /\ odsRaised[c] = odsRaised[d]
SignFailedAfterMatch(c) ==
  /\ odsKey[c] # "None"
  /\ signReqs[c] # <<>>
  /\ LET last == signReqs[c][Len(signReqs[c])]
     IN  last.key = odsKey[c] /\ last.data # ChallengeText /\ ~last.ok
C14_AsStated ==
  \A c \in Callers :
    /\ (pc[c] = "except" /\ SignFailedAfterMatch(c)) =>
         /\ Len(exc[c]) = 1
         /\ exc[c][1].cls = "AgentError"
         /\ key[c].nonce = <<>>
         /\ key[c].nonceSig = <<>>
    /\ (Returned(c) /\ SignFailedAfterMatch(c)) =>
         /\ Cred(c).nonceSig = <<Sentinel>>
         /\ Len(Cred(c).nonce) = 1

\* C15: when the agent fails to sign the challenge for an agent key during
\* matching, get_ods_key ends there with the agent's error: the refused
\* request is the last thing the call asked of the agent, no key is selected,
\* and the acquisition returns the unauthenticated credential, also when an
\* agent key later in the order has a directory record.
RefusedChallenges(c) ==
  {i \in 1..Len(signReqs[c]) :
     signReqs[c][i].data = ChallengeText /\ ~signReqs[c][i].ok}
LaterMatches(c, i) ==
  {j \in 1..Len(agentKeys) :
     /\ j > IndexOf(agentKeys, signReqs[c][i].key)
     /\ agentKeys[j] \in RsaRegistered(owner[c])}
C15_RefusedChallengeAbortsScan ==
  \A c \in Callers :
    \A i \in RefusedChallenges(c) :
      /\ i = Len(signReqs[c])
      /\ signReqs[c][i].key = agentKeys[i]
      /\ AfterGetOdsKey(c) =>
           /\ odsKey[c] = "None"
           /\ Len(odsRaised[c]) = 1
           /\ odsRaised[c][1].cls = "SSHException"
           /\ odsRaised[c][1].msg = "key cannot be used for signing"
      /\ Returned(c) =>
           /\ Cred(c).nonceSig = <<Sentinel>>
           /\ Len(Cred(c).nonce) = 1
C15_Witness ==
  \E c \in Callers :
    \E i \in RefusedChallenges(c) :
      /\ Returned(c)
      /\ LaterMatches(c, i) # {}
      /\ Cred(c).nonceSig = <<Sentinel>>

\* C16: get_ods_key ends either by returning a key whose challenge signature
\* verified against an ssh-rsa directory record of the owner, or by raising;
\* it never returns None. So sign_session never raises AuthorizationError,
\* and every session signature is requested from, and made by, a key that
\* passed the challenge match in that call.
PassedChallenge(c, k) ==
  /\ k \in RsaRegistered(owner[c])
  /\ \E i \in 1..Len(signReqs[c]) :
       /\ signReqs[c][i] = [key |-> k, data |-> ChallengeText, ok |-> TRUE]
       /\ \A j \in 1..(i - 1) : signReqs[c][j].data = ChallengeText
  /\ \E i \in 1..Len(probes[c]) :
       /\ probes[c][i][1] = k
       /\ odsKeys[owner[c]][probes[c][i][2]] = [type |-> "ssh-rsa", blob |-> k]
SessionRequests(c) ==
  {i \in 1..Len(signReqs[c]) : signReqs[c][i].data # ChallengeText}
C16_MatchedKeyOrError ==
  \A c \in Callers :
    /\ AfterGetOdsKey(c) =>
         IF odsRaised[c] = <<>>
         THEN odsKey[c] # "None" /\ PassedChallenge(c, odsKey[c])
         ELSE odsKey[c] = "None"
    /\ pc[c] = "sign" => odsKey[c] # "None"
    /\ \A i \in 1..Len(exc[c]) : exc[c][i].cls # "AuthorizationError"
    /\ \A i \in 1..Len(log[c]) :
         log[c][i] # "Cannot use SSH auth: Could not find valid key for " \o owner[c]
    /\ \A i \in SessionRequests(c) :
         /\ signReqs[c][i].key = odsKey[c]
         /\ PassedChallenge(c, signReqs[c][i].key)
    /\ (Returned(c) /\ Cred(c).nonceSig # <<Sentinel>>) =>
         PassedChallenge(c, Cred(c).nonceSig[1].signer)
C16_Witness ==
  \E c \in Callers :
    /\ Returned(c)
    /\ Authenticated(Cred(c))
    /\ Len(agentKeys) > 1
    /\ Cred(c).nonceSig[1].signer = agentKeys[2]

====
